---- MODULE Spec2Model ----
(***************************************************************************)
(* CommitBuddy AI (streamlit_app.py): one Streamlit script run after the   *)
(* other.  A script run checks the two credentials, renders the form,      *)
(* assembles user_info and, when the run was triggered by the button,      *)
(* builds three agents and three tasks and runs them as a crew.            *)
(* Text is modelled by TLA+ strings: \o is Python's string concatenation.  *)
(***************************************************************************)
EXTENDS Integers, Sequences, FiniteSets, TLC

VARIABLES
    env,          \* the process environment after load_dotenv()
    form,         \* the widgets' values (Streamlit keeps them between runs)
    clicked,      \* what st.button returns in the current run
    pc,           \* position of the current script run
    ui,           \* elements the current run has put on the page, in order
    search_tool,  \* module-level SerperDevTool() built in this run
    user_info,    \* the record assembled by app()
    agents,       \* what create_agents returned
    tasks,        \* what create_tasks returned
    status,       \* per task: its state inside crew.kickoff()
    outputs,      \* per task: the output its agent produced
    received,     \* per task: the context outputs handed to its agent
    attempts,     \* per task: how many times it was started
    kickoffs,     \* crew.kickoff() calls of the current run
    result,       \* what run_nutrition_advisor returned
    rendered,     \* what st.markdown(result) has put on the page
    snap          \* history: one earlier submission, kept for comparison

vars == <<env, form, clicked, pc, ui, search_tool, user_info, agents, tasks,
          status, outputs, received, attempts, kickoffs, result, rendered, snap>>

----------------------------------------------------------------------------
(* Bounds of the model *)

\* widgets that differ from their initial value at any one time
MaxEdits == 1
\* the same, for a submission that is kept for comparison
MaxSnapEdits == 0
\* goals selected in the multiselect at any one time
MaxGoals == 2
\* distinct texts the LLM may answer for one task
NumVariants == 2

----------------------------------------------------------------------------
(* The environment: os.getenv gives None or a string *)

Unset == [set |-> FALSE, val |-> ""]

IsSet(v) == [set |-> TRUE, val |-> v]

EnvValues == {Unset, IsSet(""), IsSet("key")}

\* Python truthiness of os.getenv's result: None and "" are falsy
Truthy(v) == v.set /\ v.val # ""

SERPER_API_KEY == env.SERPER_API_KEY

GROQ_API_KEY == env.GROQ_API_KEY

\* faulty variant: `and` for `or`
MissingKeysBoth == ~Truthy(SERPER_API_KEY) /\ ~Truthy(GROQ_API_KEY)

\* faulty variant: `is None` for `not`
MissingKeysIsNone == ~SERPER_API_KEY.set \/ ~GROQ_API_KEY.set

\* the condition of the `if` at module level
MissingKeys == ~Truthy(SERPER_API_KEY) \/ ~Truthy(GROQ_API_KEY)

----------------------------------------------------------------------------
(* The form: widgets, their options and their initial values *)

AgeMin == 1

AgeMax == 120

AgeDefault == 25

GenderOptions == <<"Male", "Female", "Other">>

HeightDefault == "5'10\""

WeightDefault == "160 lbs"

ActivityOptions ==
    <<"Sedentary", "Lightly Active", "Moderately Active", "Very Active",
      "Extremely Active">>

GoalOptions ==
    <<"Weight Loss", "Weight Gain", "Maintenance", "Muscle Building",
      "General Health">>

CookingOptions == <<"Very Limited", "Basic", "Average", "Advanced">>

BudgetOptions == <<"Very Limited", "Moderate", "Flexible">>

Range(s) == {s[i] : i \in DOMAIN s}

\* the five text areas, created without an initial value
OptionalFields ==
    {"medical_conditions", "medications", "allergies", "food_preferences",
     "cultural_factors"}

\* every widget but the multiselect
ScalarFields ==
    {"age", "gender", "height", "weight", "activity_level", "cooking_ability",
     "budget"} \cup OptionalFields

Fields == ScalarFields \cup {"goals"}

\* number_input, selectbox, radio and select_slider start at their value
\* argument or first option; text_area and multiselect start empty
DefaultForm ==
    [age                |-> AgeDefault,
     gender             |-> GenderOptions[1],
     height             |-> HeightDefault,
     weight             |-> WeightDefault,
     activity_level     |-> ActivityOptions[1],
     goals              |-> <<>>,
     medical_conditions |-> "",
     medications        |-> "",
     allergies          |-> "",
     food_preferences   |-> "",
     cooking_ability    |-> CookingOptions[1],
     budget             |-> BudgetOptions[1],
     cultural_factors   |-> ""]

\* what the user may put into a widget; the texts are samples of free text
Choices(field) ==
    CASE field = "age"             -> {AgeMin, AgeDefault, AgeMax}
      [] field = "gender"          -> Range(GenderOptions)
      [] field = "height"          -> {HeightDefault, ""}
      [] field = "weight"          -> {WeightDefault, ""}
      [] field = "activity_level"  -> Range(ActivityOptions)
      [] field = "cooking_ability" -> Range(CookingOptions)
      [] field = "budget"          -> Range(BudgetOptions)
      [] OTHER                     -> {"", "Peanuts"}

\* the goals the user picks from in the model (a sample of GoalOptions)
GoalPicks == {GoalOptions[1], GoalOptions[4], GoalOptions[5]}

EditCount(f) == Cardinality({fld \in Fields : f[fld] # DefaultForm[fld]})

----------------------------------------------------------------------------
(* app(): the user_info record *)

\* faulty variant: the default is dropped
OrKeepsEmpty(x, d) == x

\* Python's `x or d` on strings
Or(x, d) == IF x = "" THEN d ELSE x

\* Python's sep.join(seq)
RECURSIVE Join(_, _)
Join(sep, seq) ==
    IF seq = <<>> THEN ""
    ELSE IF Len(seq) = 1 THEN seq[1]
    ELSE seq[1] \o sep \o Join(sep, Tail(seq))

\* faulty variant: "," for ", "
GoalsFieldNoSpace(goals) ==
    IF goals # <<>> THEN Join(",", goals) ELSE "General Health"

GoalsField(goals) == IF goals # <<>> THEN Join(", ", goals) ELSE "General Health"

\* faulty variant: allergies reads the medications widget, height gets a default
BuildUserInfoMixedUp(f) ==
    [age                |-> f.age,
     gender             |-> f.gender,
     height             |-> Or(f.height, "None"),
     weight             |-> f.weight,
     activity_level     |-> f.activity_level,
     goals              |-> GoalsField(f.goals),
     medical_conditions |-> Or(f.medical_conditions, "None"),
     medications        |-> Or(f.medications, "None"),
     allergies          |-> Or(f.medications, "None"),
     food_preferences   |-> Or(f.food_preferences, "None"),
     cooking_ability    |-> f.cooking_ability,
     budget             |-> f.budget,
     cultural_factors   |-> Or(f.cultural_factors, "None")]

BuildUserInfo(f) ==
    [age                |-> f.age,
     gender             |-> f.gender,
     height             |-> f.height,
     weight             |-> f.weight,
     activity_level     |-> f.activity_level,
     goals              |-> GoalsField(f.goals),
     medical_conditions |-> Or(f.medical_conditions, "None"),
     medications        |-> Or(f.medications, "None"),
     allergies          |-> Or(f.allergies, "None"),
     food_preferences   |-> Or(f.food_preferences, "None"),
     cooking_ability    |-> f.cooking_ability,
     budget             |-> f.budget,
     cultural_factors   |-> Or(f.cultural_factors, "None")]

\* user_info before app() has assigned it (age 0 is no value of the widget)
NoRecord ==
    [age |-> 0, gender |-> "", height |-> "", weight |-> "",
     activity_level |-> "", goals |-> "", medical_conditions |-> "",
     medications |-> "", allergies |-> "", food_preferences |-> "",
     cooking_ability |-> "", budget |-> "", cultural_factors |-> ""]

----------------------------------------------------------------------------
(* get_llm, create_agents *)

LlmOf(key) == [model |-> "groq/llama-3.1-8b-instant", api_key |-> key]

get_llm == LlmOf(GROQ_API_KEY)

\* tools holds the module-level search_tool; diet_planner is given none
create_agents ==
    LET llm == get_llm
    IN  << [role      |-> "Nutrition Specialist",
            goal      |-> "Develop personalized nutrition recommendations",
            backstory |-> "Expert in nutrition science",
            tools     |-> <<"search_tool">>,
            llm       |-> llm],
           [role      |-> "Medical Nutrition Therapist",
            goal      |-> "Analyze medical conditions and diet restrictions",
            backstory |-> "Clinical nutrition expert",
            tools     |-> <<"search_tool">>,
            llm       |-> llm],
           [role      |-> "Therapeutic Diet Planner",
            goal      |-> "Create enjoyable meal plans",
            backstory |-> "Transforms clinical advice into meals",
            tools     |-> <<>>,
            llm       |-> llm] >>

----------------------------------------------------------------------------
(* create_tasks: three f-strings, each a line break and eight spaces       *)
(* before every label                                                      *)

Indent == "\n        "

DemographicsDescription(u) ==
    Indent \o "Age: " \o ToString(u.age) \o
    Indent \o "Gender: " \o u.gender \o
    Indent \o "Height: " \o u.height \o
    Indent \o "Weight: " \o u.weight \o
    Indent \o "Activity Level: " \o u.activity_level \o
    Indent \o "Goals: " \o u.goals \o
    Indent

MedicalDescription(u) ==
    Indent \o "Conditions: " \o u.medical_conditions \o
    Indent \o "Medications: " \o u.medications \o
    Indent \o "Allergies: " \o u.allergies \o
    Indent

DietPlanDescription(u) ==
    Indent \o "Food Preferences: " \o u.food_preferences \o
    Indent \o "Cooking Ability: " \o u.cooking_ability \o
    Indent \o "Budget: " \o u.budget \o
    Indent \o "Cultural Factors: " \o u.cultural_factors \o
    Indent

\* the names of the three Task variables
TaskNames == {"demographics", "medical", "diet_plan"}

demographics(nutritionist, u) ==
    [name            |-> "demographics",
     description     |-> DemographicsDescription(u),
     agent           |-> nutritionist.role,
     context         |-> <<>>,
     expected_output |-> "Detailed calorie requirements and nutrition breakdown"]

\* faulty variant: the medical task is created without context
medicalNoContext(medical_specialist, u) ==
    [name            |-> "medical",
     description     |-> MedicalDescription(u),
     agent           |-> medical_specialist.role,
     context         |-> <<>>,
     expected_output |-> "Medical diet restrictions and safe food recommendations"]

medical(medical_specialist, u) ==
    [name            |-> "medical",
     description     |-> MedicalDescription(u),
     agent           |-> medical_specialist.role,
     context         |-> <<"demographics">>,
     expected_output |-> "Medical diet restrictions and safe food recommendations"]

diet_plan(diet_planner, u) ==
    [name            |-> "diet_plan",
     description     |-> DietPlanDescription(u),
     agent           |-> diet_planner.role,
     context         |-> <<"demographics", "medical">>,
     expected_output |-> "Complete personalized diet meal plan"]

\* faulty variant: the list is returned with medical first
create_tasksMedicalFirst(ags, u) ==
    << medical(ags[2], u), demographics(ags[1], u), diet_plan(ags[3], u) >>

create_tasks(ags, u) ==
    << demographics(ags[1], u), medical(ags[2], u), diet_plan(ags[3], u) >>

----------------------------------------------------------------------------
(* State of one script run *)

NoOutput == [task |-> "", by |-> "", variant |-> 0]

\* between: a submission with other form values was made after the kept one
NoSnap ==
    [taken |-> FALSE, between |-> FALSE, form |-> DefaultForm,
     user_info |-> NoRecord, agents |-> <<>>, tasks |-> <<>>]

\* Streamlit executes the script from its first line in a fresh namespace:
\* nothing a run assigned is left for the next one
FreshRun ==
    /\ pc' = "start"
    /\ ui' = <<>>
    /\ search_tool' = FALSE
    /\ user_info' = NoRecord
    /\ agents' = <<>>
    /\ tasks' = <<>>
    /\ status' = [t \in TaskNames |-> "none"]
    /\ outputs' = [t \in TaskNames |-> NoOutput]
    /\ received' = [t \in TaskNames |-> <<>>]
    /\ attempts' = [t \in TaskNames |-> 0]
    /\ kickoffs' = 0
    /\ result' = NoOutput
    /\ rendered' = NoOutput

Init ==
    /\ env \in [SERPER_API_KEY : EnvValues, GROQ_API_KEY : EnvValues]
    /\ form = DefaultForm
    /\ clicked = FALSE
    /\ pc = "start"
    /\ ui = <<>>
    /\ search_tool = FALSE
    /\ user_info = NoRecord
    /\ agents = <<>>
    /\ tasks = <<>>
    /\ status = [t \in TaskNames |-> "none"]
    /\ outputs = [t \in TaskNames |-> NoOutput]
    /\ received = [t \in TaskNames |-> <<>>]
    /\ attempts = [t \in TaskNames |-> 0]
    /\ kickoffs = 0
    /\ result = NoOutput
    /\ rendered = NoOutput
    /\ snap = NoSnap

crewVars == <<status, outputs, received, attempts, kickoffs, result, rendered>>

----------------------------------------------------------------------------
(* Module level: the credential check and the search tool *)

\* if not SERPER_API_KEY or not GROQ_API_KEY: st.error(...); st.stop()
ShowMissingKeys ==
    /\ pc = "start"
    /\ MissingKeys
    /\ ui' = Append(ui, "error")
    /\ pc' = "stopped"
    /\ UNCHANGED <<env, form, clicked, search_tool, user_info, agents, tasks,
                   crewVars, snap>>

\* search_tool = SerperDevTool(), then app() under __main__
ConstructSearchTool ==
    /\ pc = "start"
    /\ ~MissingKeys
    /\ search_tool' = TRUE
    /\ pc' = "app"
    /\ UNCHANGED <<env, form, clicked, ui, user_info, agents, tasks, crewVars,
                   snap>>

----------------------------------------------------------------------------
(* app() *)

\* faulty variant: a text kept from an earlier submission is carried into the record
RenderFormAccumulating ==
    /\ pc = "app"
    /\ ui' = Append(ui, "form")
    /\ user_info' =
          [BuildUserInfo(form) EXCEPT !.medical_conditions =
              IF snap.taken THEN @ \o "; " \o snap.user_info.medical_conditions
              ELSE @]
    /\ pc' = "button"
    /\ UNCHANGED <<env, form, clicked, search_tool, agents, tasks, crewVars,
                   snap>>

\* page config, style, header, the three tabs with their widgets, user_info
RenderForm ==
    /\ pc = "app"
    /\ ui' = Append(ui, "form")
    /\ user_info' = BuildUserInfo(form)
    /\ pc' = "button"
    /\ UNCHANGED <<env, form, clicked, search_tool, agents, tasks, crewVars,
                   snap>>

\* faulty variant: the pipeline runs in every script run
ButtonAlwaysTrue == TRUE

\* st.button draws the button and returns True in the run its click started
ButtonReturns == clicked

\* if st.button("Generate Nutrition Plan"): with st.spinner(...)
Button ==
    /\ pc = "button"
    /\ \/ /\ ButtonReturns
          /\ ui' = ui \o <<"button", "spinner">>
          /\ pc' = "advisor"
       \/ /\ ~ButtonReturns
          /\ ui' = Append(ui, "button")
          /\ pc' = "done"
    /\ UNCHANGED <<env, form, clicked, search_tool, user_info, agents, tasks,
                   crewVars, snap>>

----------------------------------------------------------------------------
(* run_nutrition_advisor(user_info) *)

CreateAgents ==
    /\ pc = "advisor"
    /\ agents' = create_agents
    /\ pc' = "tasks"
    /\ UNCHANGED <<env, form, clicked, ui, search_tool, user_info, tasks,
                   crewVars, snap>>

CreateTasks ==
    /\ pc = "tasks"
    /\ tasks' = create_tasks(agents, user_info)
    /\ pc' = "crew"
    /\ UNCHANGED <<env, form, clicked, ui, search_tool, user_info, agents,
                   crewVars, snap>>

\* crew = Crew(agents=..., tasks=tasks); crew.kickoff() is entered
Kickoff ==
    /\ pc = "crew"
    /\ kickoffs' = kickoffs + 1
    /\ status' = [t \in TaskNames |->
                    IF \E i \in DOMAIN tasks : tasks[i].name = t
                    THEN "pending" ELSE "none"]
    /\ pc' = "kickoff"
    /\ UNCHANGED <<env, form, clicked, ui, search_tool, user_info, agents,
                   tasks, outputs, received, attempts, result, rendered, snap>>

\* faulty variant: the exception is caught and the run goes on to st.success
OnKickoffErrorSwallowed == "success"

\* where an exception raised inside crew.kickoff() leaves the script run:
\* neither run_nutrition_advisor nor app() has a try, the run ends there
OnKickoffError == "raised"

\* the crew's default (sequential) process takes the tasks in list order:
\* the next task is the first one of the list that is not done
NextTask ==
    CHOOSE i \in DOMAIN tasks :
        /\ status[tasks[i].name] # "done"
        /\ \A j \in 1..(i - 1) : status[tasks[j].name] = "done"

\* the task's agent is handed the outputs of the tasks named in its context
StartTask ==
    /\ pc = "kickoff"
    /\ \E i \in DOMAIN tasks : status[tasks[i].name] # "done"
    /\ LET t == tasks[NextTask]
       IN  /\ status[t.name] = "pending"
           /\ status' = [status EXCEPT ![t.name] = "running"]
           /\ attempts' = [attempts EXCEPT ![t.name] = @ + 1]
           /\ received' = [received EXCEPT ![t.name] =
                             [k \in DOMAIN t.context |-> outputs[t.context[k]]]]
    /\ UNCHANGED <<env, form, clicked, pc, ui, search_tool, user_info, agents,
                   tasks, outputs, kickoffs, result, rendered, snap>>

\* the agent's LLM answers: the task's output is one of the texts it may give
FinishTask ==
    /\ pc = "kickoff"
    /\ \E i \in DOMAIN tasks, v \in 1..NumVariants :
          LET t == tasks[i]
          IN  /\ status[t.name] = "running"
              /\ status' = [status EXCEPT ![t.name] = "done"]
              /\ outputs' = [outputs EXCEPT ![t.name] =
                               [task |-> t.name, by |-> t.agent, variant |-> v]]
    /\ UNCHANGED <<env, form, clicked, pc, ui, search_tool, user_info, agents,
                   tasks, received, attempts, kickoffs, result, rendered, snap>>

\* the LLM or search call of the running task raises (network, quota,
\* malformed response): the exception leaves crew.kickoff()
FailTask ==
    /\ pc = "kickoff"
    /\ \E i \in DOMAIN tasks :
          /\ status[tasks[i].name] = "running"
          /\ status' = [status EXCEPT ![tasks[i].name] = "failed"]
    /\ pc' = OnKickoffError
    /\ UNCHANGED <<env, form, clicked, ui, search_tool, user_info, agents,
                   tasks, outputs, received, attempts, kickoffs, result,
                   rendered, snap>>

\* crew.kickoff() returns the last task's output; the spinner block is left
ReturnResult ==
    /\ pc = "kickoff"
    /\ \A i \in DOMAIN tasks : status[tasks[i].name] = "done"
    /\ result' = outputs[tasks[Len(tasks)].name]
    /\ pc' = "success"
    /\ UNCHANGED <<env, form, clicked, ui, search_tool, user_info, agents,
                   tasks, status, outputs, received, attempts, kickoffs,
                   rendered, snap>>

\* st.success("Plan Generated!")
ShowSuccess ==
    /\ pc = "success"
    /\ ui' = Append(ui, "success")
    /\ pc' = "markdown"
    /\ UNCHANGED <<env, form, clicked, search_tool, user_info, agents, tasks,
                   crewVars, snap>>

\* st.markdown(result)
ShowResult ==
    /\ pc = "markdown"
    /\ ui' = Append(ui, "result")
    /\ rendered' = result
    /\ pc' = "done"
    /\ UNCHANGED <<env, form, clicked, search_tool, user_info, agents, tasks,
                   status, outputs, received, attempts, kickoffs, result,
                   snap>>

----------------------------------------------------------------------------
(* The user: every interaction with a widget starts the next script run *)

RunEnded == pc \in {"done", "raised"}

\* a value is typed or picked in one of the widgets
EditWidget ==
    /\ RunEnded
    /\ \E field \in ScalarFields : \E v \in Choices(field) :
          /\ v # form[field]
          /\ EditCount([form EXCEPT ![field] = v]) <= MaxEdits
          /\ form' = [form EXCEPT ![field] = v]
    /\ clicked' = FALSE
    /\ FreshRun
    /\ UNCHANGED <<env, snap>>

\* st.multiselect returns the selected options in the order of selection
SelectGoal ==
    /\ RunEnded
    /\ Len(form.goals) < MaxGoals
    /\ \E g \in GoalPicks \ Range(form.goals) :
          /\ EditCount([form EXCEPT !.goals = Append(@, g)]) <= MaxEdits
          /\ form' = [form EXCEPT !.goals = Append(@, g)]
    /\ clicked' = FALSE
    /\ FreshRun
    /\ UNCHANGED <<env, snap>>

DeselectGoal ==
    /\ RunEnded
    /\ \E i \in DOMAIN form.goals :
          form' = [form EXCEPT !.goals =
                     SubSeq(@, 1, i - 1) \o SubSeq(@, i + 1, Len(@))]
    /\ clicked' = FALSE
    /\ FreshRun
    /\ UNCHANGED <<env, snap>>

\* the button can be clicked only where the last run has rendered it
ClickButton ==
    /\ RunEnded
    /\ \E k \in DOMAIN ui : ui[k] = "button"
    /\ clicked' = TRUE
    /\ FreshRun
    /\ UNCHANGED <<env, form, snap>>

\* the page is reloaded: a new session, the widgets at their initial values
Reload ==
    /\ pc \in {"stopped", "done", "raised"}
    /\ form' = DefaultForm
    /\ clicked' = FALSE
    /\ FreshRun
    /\ UNCHANGED <<env, snap>>

----------------------------------------------------------------------------

Next ==
    \/ ShowMissingKeys
    \/ ConstructSearchTool
    \/ RenderForm
    \/ Button
    \/ CreateAgents
    \/ CreateTasks
    \/ Kickoff
    \/ StartTask
    \/ FinishTask
    \/ FailTask
    \/ ReturnResult
    \/ ShowSuccess
    \/ ShowResult
    \/ EditWidget
    \/ SelectGoal
    \/ DeselectGoal
    \/ ClickButton
    \/ Reload

Spec == Init /\ [][Next]_vars

----------------------------------------------------------------------------
(* Helpers of the properties *)

Has(seq, x) == \E k \in DOMAIN seq : seq[k] = x

Pos(seq, x) == CHOOSE k \in DOMAIN seq : seq[k] = x

\* t occurs in s as a contiguous piece of text
Contains(s, t) ==
    \E i \in 1..(Len(s) - Len(t) + 1) : SubSeq(s, i, i + Len(t) - 1) = t

\* no part of run_nutrition_advisor has run
NothingBuilt ==
    /\ agents = <<>>
    /\ tasks = <<>>
    /\ kickoffs = 0
    /\ \A t \in TaskNames : attempts[t] = 0 /\ status[t] = "none"

NonEmptyKey(v) == v.set /\ v.val # ""

----------------------------------------------------------------------------
(* C1 *)

\* what a run with a missing credential looks like: the error and nothing else
StoppedBeforeForm ==
    /\ pc \in {"start", "stopped"}
    /\ pc = "stopped" => ui = <<"error">>
    /\ ~Has(ui, "form") /\ ~Has(ui, "button")
    /\ ~search_tool
    /\ NothingBuilt

\* what a run with both credentials looks like: no error, the form rendered
FormRendered ==
    /\ pc # "stopped"
    /\ ~Has(ui, "error")
    /\ pc \notin {"start", "app"} => Has(ui, "form")

\* C1 as stated: if SERPER_API_KEY or GROQ_API_KEY is absent from the
\* environment the run shows the error and stops before the form (nothing is
\* built); when both are present the error is not shown and the form is
\* rendered.
C1_AsStated ==
    /\ (~SERPER_API_KEY.set \/ ~GROQ_API_KEY.set) => StoppedBeforeForm
    /\ (SERPER_API_KEY.set /\ GROQ_API_KEY.set) => FormRendered

\* C1 as amended: if SERPER_API_KEY or GROQ_API_KEY is absent or empty the
\* run shows the error and stops before the form, with no widget, button,
\* search tool, agent, task, crew or pipeline call; when both are present and
\* non-empty the error is not shown and the form is rendered.
C1_MissingOrEmptyKeyStops ==
    /\ (~NonEmptyKey(SERPER_API_KEY) \/ ~NonEmptyKey(GROQ_API_KEY))
          => StoppedBeforeForm
    /\ (NonEmptyKey(SERPER_API_KEY) /\ NonEmptyKey(GROQ_API_KEY))
          => FormRendered

C1_Witness ==
    /\ SERPER_API_KEY = IsSet("key")
    /\ GROQ_API_KEY = Unset
    /\ pc = "stopped"
    /\ ui = <<"error">>

----------------------------------------------------------------------------
(* C10 *)

\* C10: a credential set to the empty string is treated like an unset one:
\* a run gets past the credential check only with both keys non-empty, a run
\* with an empty key ends exactly as the run with that key unset does, and no
\* agent's LLM client holds an empty or missing api_key.
C10_EmptyKeyIsMissing ==
    /\ pc \notin {"start", "stopped"}
          => NonEmptyKey(SERPER_API_KEY) /\ NonEmptyKey(GROQ_API_KEY)
    /\ (SERPER_API_KEY = IsSet("") \/ GROQ_API_KEY = IsSet(""))
          => /\ pc \in {"start", "stopped"}
             /\ pc = "stopped" => ui = <<"error">>
    /\ \A i \in DOMAIN agents :
          agents[i].llm.api_key.set /\ agents[i].llm.api_key.val # ""

C10_Witness ==
    /\ GROQ_API_KEY = IsSet("")
    /\ SERPER_API_KEY = IsSet("key")
    /\ pc = "stopped"
    /\ ui = <<"error">>

----------------------------------------------------------------------------
(* C2 *)

VerbatimFields ==
    {"age", "gender", "height", "weight", "activity_level", "cooking_ability",
     "budget"}

\* C2: in the assembled user_info each of the five optional fields holds
\* "None" where the text area was left blank and the entered text unchanged
\* where it was not, and age, gender, height, weight, activity_level,
\* cooking_ability and budget hold exactly what the widgets hold.
C2_NoneForBlankOptional ==
    user_info # NoRecord =>
        /\ \A f \in OptionalFields :
              user_info[f] = IF form[f] = "" THEN "None" ELSE form[f]
        /\ \A f \in VerbatimFields : user_info[f] = form[f]

C2_Witness ==
    /\ form.allergies = "Peanuts"
    /\ form.medications = ""
    /\ user_info.allergies = "Peanuts"
    /\ user_info.medications = "None"
    /\ user_info.age = AgeDefault
    /\ user_info.height = HeightDefault

----------------------------------------------------------------------------
(* C3 *)

\* where the k-th goal starts in the joined text: after the goals before it
\* and one ", " for each of them
RECURSIVE GoalStart(_, _)
GoalStart(goals, k) ==
    IF k = 1 THEN 1
    ELSE GoalStart(goals, k - 1) + Len(goals[k - 1]) + 2

\* s is the goals in selection order with ", " between neighbours
IsCommaSpaceJoined(s, goals) ==
    /\ Len(s) = GoalStart(goals, Len(goals)) + Len(goals[Len(goals)]) - 1
    /\ \A k \in DOMAIN goals :
          SubSeq(s, GoalStart(goals, k),
                    GoalStart(goals, k) + Len(goals[k]) - 1) = goals[k]
    /\ \A k \in 1..(Len(goals) - 1) :
          SubSeq(s, GoalStart(goals, k) + Len(goals[k]),
                    GoalStart(goals, k) + Len(goals[k]) + 1) = ", "

\* C3: the record's goals field is the selected goals in selection order
\* joined by ", " when at least one goal is selected, and "General Health"
\* when none is; [] gives "General Health", ["Weight Loss","Muscle Building"]
\* gives "Weight Loss, Muscle Building".
C3_GoalsJoinedOrGeneralHealth ==
    user_info # NoRecord =>
        /\ form.goals = <<>> => user_info.goals = "General Health"
        /\ form.goals # <<>> => IsCommaSpaceJoined(user_info.goals, form.goals)
        /\ form.goals = <<"Weight Loss", "Muscle Building">>
              => user_info.goals = "Weight Loss, Muscle Building"

C3_Witness ==
    /\ form.goals = <<"Weight Loss", "Muscle Building">>
    /\ user_info.goals = "Weight Loss, Muscle Building"

----------------------------------------------------------------------------
(* C8 *)

StringFields == Fields \ {"age"}

\* C8 as stated: no string field of an assembled user_info is the empty
\* string, a required text field left empty (height and weight included)
\* holding a placeholder instead.
C8_AsStated ==
    user_info # NoRecord => \A f \in StringFields : user_info[f] # ""

\* C8 as amended: only the five optional text fields and goals get a
\* placeholder ("None", "General Health") and are never the empty string in
\* the record; height and weight get none, and a height or weight left empty
\* is the empty string in the record passed to the pipeline.
C8_OnlyOptionalFieldsDefault ==
    user_info # NoRecord =>
        /\ \A f \in OptionalFields \cup {"goals"} : user_info[f] # ""
        /\ form.height = "" => user_info.height = ""
        /\ form.weight = "" => user_info.weight = ""

C8_Witness ==
    /\ form.height = ""
    /\ user_info.height = ""
    /\ user_info.medical_conditions = "None"
    /\ tasks # <<>>
    /\ kickoffs = 1

----------------------------------------------------------------------------
(* C4 *)

TaskOrder == <<"demographics", "medical", "diet_plan">>

InFixedOrder ==
    /\ Len(tasks) = 3
    /\ \A i \in 1..3 : tasks[i].name = TaskOrder[i]

\* C4 as stated: create_tasks gives the three descriptions in the order
\* demographics, medical, diet plan, the medical description containing the
\* demographics description and the diet-plan description containing both
\* the demographics and the medical descriptions.
C4_AsStated ==
    tasks # <<>> =>
        /\ InFixedOrder
        /\ Contains(tasks[2].description, tasks[1].description)
        /\ Contains(tasks[3].description, tasks[1].description)
        /\ Contains(tasks[3].description, tasks[2].description)

\* the text is exactly the given labels, each after a line break and eight
\* spaces and followed by its value, and a closing line break and indent
IsLabelledLines(text, labels, values) ==
    /\ \A k \in DOMAIN labels :
          Contains(text, Indent \o labels[k] \o values[k] \o Indent)
    /\ Len(text) = Len(Indent) * (Len(labels) + 1)
                   + Len(Join("", labels)) + Len(Join("", values))

\* C4 as amended: create_tasks gives the three tasks in the order
\* demographics, medical, diet plan; each description holds the labelled
\* fields of its own stage and nothing else; the earlier stages are attached
\* as context references (medical: demographics; diet plan: demographics and
\* medical), not as text of the description.
C4_OwnFieldsAndContextReferences ==
    tasks # <<>> =>
        /\ InFixedOrder
        /\ tasks[1].context = <<>>
        /\ tasks[2].context = <<"demographics">>
        /\ tasks[3].context = <<"demographics", "medical">>
        /\ IsLabelledLines(tasks[1].description,
              <<"Age: ", "Gender: ", "Height: ", "Weight: ",
                "Activity Level: ", "Goals: ">>,
              <<ToString(user_info.age), user_info.gender, user_info.height,
                user_info.weight, user_info.activity_level, user_info.goals>>)
        /\ IsLabelledLines(tasks[2].description,
              <<"Conditions: ", "Medications: ", "Allergies: ">>,
              <<user_info.medical_conditions, user_info.medications,
                user_info.allergies>>)
        /\ IsLabelledLines(tasks[3].description,
              <<"Food Preferences: ", "Cooking Ability: ", "Budget: ",
                "Cultural Factors: ">>,
              <<user_info.food_preferences, user_info.cooking_ability,
                user_info.budget, user_info.cultural_factors>>)

C4_Witness ==
    /\ pc = "crew"
    /\ InFixedOrder
    /\ form.allergies = "Peanuts"
    /\ Contains(tasks[2].description, "Allergies: Peanuts")
    /\ ~Contains(tasks[2].description, "Age: ")
    /\ tasks[3].context = <<"demographics", "medical">>

----------------------------------------------------------------------------
(* C5 *)

Started(t) == status[t] \in {"running", "done", "failed"}

\* C5: the stages run in the order demographics (nutritionist), medical
\* (medical specialist), diet plan (diet planner) and never overlap: a stage
\* starts only after every earlier one is done; medical is handed the
\* demographics output, diet plan the demographics and medical outputs; what
\* is rendered is the diet-plan stage's output.
C5_StagesInOrderWithContext ==
    /\ Started("medical") => status["demographics"] = "done"
    /\ Started("diet_plan") =>
          status["demographics"] = "done" /\ status["medical"] = "done"
    /\ Cardinality({t \in TaskNames : status[t] = "running"}) <= 1
    /\ status["demographics"] = "done" =>
          outputs["demographics"].by = "Nutrition Specialist"
    /\ status["medical"] = "done" =>
          outputs["medical"].by = "Medical Nutrition Therapist"
    /\ status["diet_plan"] = "done" =>
          outputs["diet_plan"].by = "Therapeutic Diet Planner"
    /\ Started("demographics") => received["demographics"] = <<>>
    /\ Started("medical") =>
          received["medical"] = <<outputs["demographics"]>>
    /\ Started("diet_plan") =>
          received["diet_plan"] = <<outputs["demographics"], outputs["medical"]>>
    /\ \A t \in TaskNames : status[t] = "done" => outputs[t].task = t
    /\ Has(ui, "result") =>
          /\ status["diet_plan"] = "done"
          /\ rendered = outputs["diet_plan"]

C5_Witness ==
    /\ pc = "done"
    /\ Has(ui, "result")
    /\ rendered = [task |-> "diet_plan", by |-> "Therapeutic Diet Planner",
                   variant |-> 2]
    /\ outputs["demographics"].variant = 1
    /\ received["diet_plan"] = <<outputs["demographics"], outputs["medical"]>>

----------------------------------------------------------------------------
(* C6 *)

Failed == \E t \in TaskNames : status[t] = "failed"

\* C6: when a stage fails the failure leaves run_nutrition_advisor
\* unhandled: no stage is started a second time, no later stage is started,
\* nothing is returned or rendered, and "Plan Generated!" is not shown for
\* that submission.
C6_FailurePropagates ==
    /\ \A t \in TaskNames : attempts[t] <= 1
    /\ Failed =>
          /\ pc = "raised"
          /\ ~Has(ui, "success") /\ ~Has(ui, "result")
          /\ result = NoOutput /\ rendered = NoOutput
          /\ \A i \in DOMAIN tasks :
                status[tasks[i].name] = "failed" =>
                   \A j \in (i + 1)..Len(tasks) :
                      /\ status[tasks[j].name] = "pending"
                      /\ attempts[tasks[j].name] = 0

C6_Witness ==
    /\ status["demographics"] = "done"
    /\ status["medical"] = "failed"
    /\ status["diet_plan"] = "pending"
    /\ pc = "raised"
    /\ ui = <<"form", "button", "spinner">>

----------------------------------------------------------------------------
(* C9 *)

\* C9: the pipeline is invoked only by the submit action and at most once
\* per click: a run the button did not start creates no agent and makes no
\* LLM or search call; a run it started calls crew.kickoff() exactly once,
\* shows nothing while the call is open, and shows "Plan Generated!" and
\* then the result only after the call has returned.
C9_OnceAndOnlyOnClick ==
    /\ kickoffs <= 1
    /\ ~clicked => NothingBuilt
    /\ (clicked /\ RunEnded) => kickoffs = 1
    /\ pc = "kickoff" => ui = <<"form", "button", "spinner">>
    /\ Has(ui, "success") =>
          /\ kickoffs = 1
          /\ \A t \in TaskNames : status[t] = "done"
          /\ result # NoOutput
    /\ Has(ui, "result") =>
          /\ Has(ui, "success")
          /\ Pos(ui, "success") < Pos(ui, "result")
          /\ rendered = result

C9_Witness ==
    /\ clicked
    /\ pc = "done"
    /\ kickoffs = 1
    /\ ui = <<"form", "button", "spinner", "success", "result">>

----------------------------------------------------------------------------
(* Submissions compared: the run seen from app(), crew.kickoff() being one *)
(* blocking call, and one earlier submission kept in snap                  *)

\* result = run_nutrition_advisor(user_info): the call returns the last
\* task's output or raises
KickoffBlocking ==
    /\ pc = "crew"
    /\ kickoffs' = kickoffs + 1
    /\ \/ /\ \E v \in 1..NumVariants :
                result' = [task    |-> tasks[Len(tasks)].name,
                           by      |-> tasks[Len(tasks)].agent,
                           variant |-> v]
          /\ pc' = "success"
       \/ /\ result' = result
          /\ pc' = OnKickoffError
    /\ UNCHANGED <<env, form, clicked, ui, search_tool, user_info, agents,
                   tasks, status, outputs, received, attempts, rendered, snap>>

\* history only: the submission being made is kept
TakeSnapshot ==
    /\ pc = "crew"
    /\ ~snap.taken
    /\ EditCount(form) <= MaxSnapEdits
    /\ snap' = [taken |-> TRUE, between |-> FALSE, form |-> form,
                user_info |-> user_info, agents |-> agents, tasks |-> tasks]
    /\ UNCHANGED <<env, form, clicked, pc, ui, search_tool, user_info, agents,
                   tasks, crewVars>>

\* history only: a submission with other form values follows the kept one
NoteOtherSubmission ==
    /\ pc = "crew"
    /\ snap.taken /\ ~snap.between
    /\ form # snap.form
    /\ snap' = [snap EXCEPT !.between = TRUE]
    /\ UNCHANGED <<env, form, clicked, pc, ui, search_tool, user_info, agents,
                   tasks, crewVars>>

NextStateless ==
    \/ ShowMissingKeys
    \/ ConstructSearchTool
    \/ RenderForm
    \/ Button
    \/ CreateAgents
    \/ CreateTasks
    \/ TakeSnapshot
    \/ NoteOtherSubmission
    \/ KickoffBlocking
    \/ ShowSuccess
    \/ ShowResult
    \/ EditWidget
    \/ SelectGoal
    \/ DeselectGoal
    \/ ClickButton
    \/ Reload

SpecStateless == Init /\ [][NextStateless]_vars

----------------------------------------------------------------------------
(* C7 *)

====
